---------------------------- MODULE Spec2Model ----------------------------
(***************************************************************************)
(* Solaris6K: approximate positions of the major planets.                  *)
(*                                                                         *)
(* The program is a pipeline of numpy computations (src/Solaris6K.py,      *)
(* duplicated in src/solaris_6k.py) over the tables of src/Constants.py.   *)
(* numpy's float64 numbers are modelled as decimal fixed-point integers:   *)
(* a quantity q (degrees, radians, au, a ratio) is the integer q * ONE,    *)
(* rounded to nearest; the century offset, whose range check is exact to   *)
(* a fraction of a day, is kept at the finer scale T_ONE.  numpy arrays    *)
(* are objects of a heap, so that an in-place update (+=) is visible to    *)
(* every holder of the array.                                              *)
(***************************************************************************)
EXTENDS Integers, Sequences, FiniteSets, TLC

(***************************************************************************)
(* Number format                                                           *)
(***************************************************************************)

\* One unit of the working fixed-point format (four decimals).
ONE == 10000

\* One century in the format of the century offset (seven decimals).
T_ONE == 10000000

\* JD instants are counted in 1/JD_SCALE days.
JD_SCALE == 100

\* numpy.float64("inf"): greater than every finite value of the model.
Inf == 2000000000

\* numpy's nan (the square root of a negative number).
NaN == -2000000001

\* The passes of the loop of get_eccentric_anomaly the model follows.
MaxIter == 8

\* The bodies in the arrays get_eccentric_anomaly is tried on.
KeplerBodies == 2

\* The error, in units of the working format, allowed to the residual of
\* Kepler's equation on top of the tolerance.
ResidualSlack == 5

\* The bodies in the arrays the heliocentric projection is tried on.
ProjectorBodies == 2

\* The calls of main in one process.
MaxRuns == 2

\* The error, in units of the working format, allowed to the arcsine of a
\* sine when two angles are compared (one degree).
AngleSlack == 10000

\* How far, in 1/JD_SCALE days, the instants tried on get_century lie from
\* either end of its range.
MaxOffset == 12

Abs(x) == IF x < 0 THEN -x ELSE x

Sign(x) == IF x < 0 THEN -1 ELSE 1

RECURSIVE GCD(_, _)
GCD(a, b) == IF b = 0 THEN a ELSE GCD(b, a % b)

\* a / b rounded to the nearest integer, halves away from zero (b > 0).
RoundDiv(a, b) == Sign(a) * ((2 * Abs(a) + b) \div (2 * b))

\* a * num / den rounded to nearest, computed without leaving 32 bits:
\* the fraction num/den is reduced and a is split by the denominator.
RatioMul(a, num, den) ==
    LET g  == GCD(Abs(num), den)
        n  == Abs(num) \div g
        d  == den \div g
        q  == Abs(a) \div d
        r  == Abs(a) % d
    IN  Sign(a) * Sign(num) * (q * n + ((2 * r * n + d) \div (2 * d)))

\* The float product a * b of two values of the working format.  The
\* operand of larger magnitude is split so that no partial product
\* overflows.
Mul(a, b) ==
    LET hi == IF Abs(a) >= Abs(b) THEN Abs(a) ELSE Abs(b)
        lo == IF Abs(a) >= Abs(b) THEN Abs(b) ELSE Abs(a)
        q  == hi \div ONE
        r  == hi % ONE
    IN  Sign(a) * Sign(b) * (q * lo + ((2 * r * lo + ONE) \div (2 * ONE)))

\* The float quotient a / b of two values of the working format (b # 0).
Div(a, b) ==
    LET q == Abs(a) \div Abs(b)
        r == Abs(a) % Abs(b)
    IN  Sign(a) * Sign(b) * (q * ONE + ((2 * r * ONE + Abs(b)) \div (2 * Abs(b))))

(***************************************************************************)
(* numpy's trigonometry                                                    *)
(***************************************************************************)

\* numpy.pi and its half, in the working format.
PI == 31416

HALF_PI == 15708

\* numpy.deg2rad and numpy.rad2deg: multiplication by pi/180 and 180/pi.
Deg2Rad(theta) == RatioMul(theta, PI, 180 * ONE)

Rad2Deg(x) == RatioMul(x, 180 * ONE, PI)

\* The sine and cosine series on the reduced argument |r| <= pi/4.
SinKernel(r) ==
    LET r2 == Mul(r, r)
        t3 == ONE - RoundDiv(r2, 42)
        t2 == ONE - RoundDiv(Mul(r2, t3), 20)
        t1 == ONE - RoundDiv(Mul(r2, t2), 6)
    IN  Mul(r, t1)

CosKernel(r) ==
    LET r2 == Mul(r, r)
        t4 == ONE - RoundDiv(r2, 56)
        t3 == ONE - RoundDiv(Mul(r2, t4), 30)
        t2 == ONE - RoundDiv(Mul(r2, t3), 12)
    IN  ONE - RoundDiv(Mul(r2, t2), 2)

\* numpy.sin and numpy.cos of an argument in radians: the argument is
\* reduced by multiples of pi/2 and the series of the quadrant is used.
SinRad(x) ==
    LET k == RoundDiv(x, HALF_PI)
        r == x - k * HALF_PI
        m == k % 4
    IN  CASE m = 0 -> SinKernel(r)
          [] m = 1 -> CosKernel(r)
          [] m = 2 -> -SinKernel(r)
          [] OTHER -> -CosKernel(r)

CosRad(x) ==
    LET k == RoundDiv(x, HALF_PI)
        r == x - k * HALF_PI
        m == k % 4
    IN  CASE m = 0 -> CosKernel(r)
          [] m = 1 -> -SinKernel(r)
          [] m = 2 -> -CosKernel(r)
          [] OTHER -> SinKernel(r)

\* numpy.arcsin on [0, 1]: the greatest angle of [lo, hi] whose sine does
\* not exceed y, found by bisection (the sine's inverse on [0, pi/2]).
RECURSIVE ArcSinSearch(_, _, _)
ArcSinSearch(y, lo, hi) ==
    IF hi - lo <= 1
    THEN IF SinRad(hi) <= y THEN hi ELSE lo
    ELSE LET mid == (lo + hi) \div 2
         IN  IF SinRad(mid) <= y
             THEN ArcSinSearch(y, mid, hi)
             ELSE ArcSinSearch(y, lo, mid)

\* numpy.arcsin: the principal value in [-pi/2, pi/2], odd in its argument;
\* nan outside [-1, 1].
ArcSinRad(y) ==
    IF Abs(y) > ONE
    THEN NaN
    ELSE Sign(y) * ArcSinSearch(Abs(y), 0, HALF_PI)

sin_wrapper(theta) == SinRad(Deg2Rad(theta))

cos_wrapper(theta) == CosRad(Deg2Rad(theta))

arcsin_wrapper(num) ==
    LET a == ArcSinRad(num)
    IN  IF a = NaN THEN NaN ELSE Rad2Deg(a)

(***************************************************************************)
(* Constants.py: the reference tables, one entry per body (Mercury, Venus, *)
(* Earth, Mars, Jupiter, Saturn, Uranus, Neptune, Pluto), each literal     *)
(* rounded to the working format.                                          *)
(***************************************************************************)

SEMI_MAJOR_AXES ==
    << 3871, 7233, 10000, 15237, 52025, 95415, 191880, 300695, 394869 >>

SEMI_MAJOR_AXES_RATE ==
    << 0, 0, 0, 0, 0, 0, -2, 1, 45 >>

ECCENTRICITIES ==
    << 2056, 68, 167, 934, 485, 555, 469, 90, 2489 >>

ECCENTRICITIES_RATE ==
    << 0, -1, 0, 1, -2, -3, 0, 0, 1 >>

INCLINATIONS ==
    << 70056, 33978, -5, 18518, 12986, 24942, 7730, 17701, 171410 >>

INCLINATIONS_RATE ==
    << -59, 4, -134, -72, -32, 45, -18, 2, 0 >>

MEAN_LONGITUDES ==
    << 2522517, 1819797, 1004669, -45681, 343348, 500757, 3142028, 3042229, 2389654 >>

MEAN_LONGITUDES_RATE ==
    << 1494726749, 585178156, 359993731, 191402993, 30349037, 12221149, 4284951, 2184652, 1451804 >>

PERIHELION_LONGITUDES ==
    << 774577, 1317676, 1029301, -239174, 142750, 928614, 1724340, 466816, 2240970 >>

PERIHELION_LONGITUDES_RATE ==
    << 1594, 568, 3180, 4522, 1820, 5418, 927, 101, -97 >>

ASCENDING_NODE_LONGITUDES ==
    << 483396, 766726, -51126, 497132, 1002928, 1136400, 739625, 1317864, 1103017 >>

ASCENDING_NODE_LONGITUDES_RATE ==
    << -1221, -2727, -2412, -2685, 1302, -2502, 574, -61, -81 >>

TERM_B ==
    << 0, 0, 0, 0, -1, 3, 6, -4, -126 >>

TERM_C ==
    << 0, 0, 0, 0, 606, -1343, -9773, 6835, 0 >>

TERM_S ==
    << 0, 0, 0, 0, -3564, 8732, 1769, -1016, 0 >>

TERM_F ==
    << 0, 0, 0, 0, 383513, 383513, 76703, 76703, 0 >>


\* J2000.0 as a Julian date, in 1/JD_SCALE days.
J2000_0 == 245154500

\* Days per century.
CONVERSION_FACTOR == 36525

\* numpy.float64(180) / numpy.pi
ECCENTRICITIY_FACTOR == Div(180 * ONE, PI)

\* Kepler's equation error threshold, 10E-8 degrees: below the resolution
\* of the working format, where it rounds to zero.
TOL == 0

\* J2000 frame obliquity, 23.43928 degrees.
OBLIQUITY == 234393

\* The century limit of get_century (3000 BCE to 3000 CE).
CENTURY_LIMIT == 30

TableNames ==
    { "SEMI_MAJOR_AXES", "SEMI_MAJOR_AXES_RATE",
      "ECCENTRICITIES", "ECCENTRICITIES_RATE",
      "INCLINATIONS", "INCLINATIONS_RATE",
      "MEAN_LONGITUDES", "MEAN_LONGITUDES_RATE",
      "PERIHELION_LONGITUDES", "PERIHELION_LONGITUDES_RATE",
      "ASCENDING_NODE_LONGITUDES", "ASCENDING_NODE_LONGITUDES_RATE",
      "TERM_B", "TERM_C", "TERM_S", "TERM_F" }

\* The array each module-level name of Constants.py is bound to at import.
TableValue(name) ==
    CASE name = "SEMI_MAJOR_AXES" -> SEMI_MAJOR_AXES
      [] name = "SEMI_MAJOR_AXES_RATE" -> SEMI_MAJOR_AXES_RATE
      [] name = "ECCENTRICITIES" -> ECCENTRICITIES
      [] name = "ECCENTRICITIES_RATE" -> ECCENTRICITIES_RATE
      [] name = "INCLINATIONS" -> INCLINATIONS
      [] name = "INCLINATIONS_RATE" -> INCLINATIONS_RATE
      [] name = "MEAN_LONGITUDES" -> MEAN_LONGITUDES
      [] name = "MEAN_LONGITUDES_RATE" -> MEAN_LONGITUDES_RATE
      [] name = "PERIHELION_LONGITUDES" -> PERIHELION_LONGITUDES
      [] name = "PERIHELION_LONGITUDES_RATE" -> PERIHELION_LONGITUDES_RATE
      [] name = "ASCENDING_NODE_LONGITUDES" -> ASCENDING_NODE_LONGITUDES
      [] name = "ASCENDING_NODE_LONGITUDES_RATE" -> ASCENDING_NODE_LONGITUDES_RATE
      [] name = "TERM_B" -> TERM_B
      [] name = "TERM_C" -> TERM_C
      [] name = "TERM_S" -> TERM_S
      [] name = "TERM_F" -> TERM_F

\* The names main binds, in the order of its statements.
MainLocals ==
    { "century_since_epoch", "semi_major_axes", "eccentricities",
      "inclinations", "mean_longitudes", "perihelion_longitudes",
      "ascending_node_longitudes", "perihelion_arguments", "mean_anomalies",
      "tol", "eccentric_anomalies", "heliocentric_coordinates",
      "ecliptic_coordinates", "eq_matrix" }

\* The locals of get_mean_anomaly and of get_eccentric_anomaly.
FunctionLocals ==
    { "mean_anomaly", "term_e", "eccentric_anomaly",
      "mean_anomaly_delta", "eccentric_anomaly_delta" }

Objects == TableNames \cup MainLocals \cup FunctionLocals

\* A name that is bound to no array.
Unbound == << >>

VARIABLES
    pc,          \* the statement of main (or of the called function) to run next
    time,        \* main's time: a Julian date in 1/JD_SCALE days
    heap,        \* the array bound to each name
    iterations,  \* passes of the loop of get_eccentric_anomaly in this call
    run,         \* which call of main is running
    printed      \* what each finished call of main has printed

vars == <<pc, time, heap, iterations, run, printed>>

(***************************************************************************)
(* The functions of Solaris6K.py.  A function over the heap takes the      *)
(* names its parameters are bound to and the name its result is bound to,  *)
(* and yields the heap after the call.                                     *)
(***************************************************************************)

\* A numpy scalar is an array of one element; in arithmetic with an array
\* it is broadcast to every index.
Scalar(x) == << x >>

At(v, k) == IF Len(v) = 1 THEN v[1] ELSE v[k]

\* One century in the unit of the JD instants.
JD_PER_CENTURY == CONVERSION_FACTOR * JD_SCALE

\* num_century of get_century, in the format of the century offset.
CenturyQuotient(jd_time) ==
    RatioMul(jd_time - J2000_0, T_ONE, JD_PER_CENTURY)

\* Mutations of the test: the boundary is refused; the test is left out.
OutOfScopeAtBoundary(num_century) == Abs(num_century) >= CENTURY_LIMIT * T_ONE

OutOfScopeIgnored(num_century) == FALSE

\* The test of get_century: abs(num_century) > 30.
OutOfScope(num_century) == Abs(num_century) > CENTURY_LIMIT * T_ONE

\* The century offset as an operand of the working format.
Working(num_century) == RoundDiv(num_century, T_ONE \div ONE)

\* A mutation of get_current_value: base_value += rate * time, in place.
get_current_value_in_place(h, base_value, rate, t, result) ==
    LET value == [k \in 1..Len(h[base_value]) |->
                     h[base_value][k] + Mul(h[rate][k], t)]
    IN  [h EXCEPT ![base_value] = value, ![result] = value]

\* get_current_value: base_value + rate * time, a new array.
get_current_value(h, base_value, rate, t, result) ==
    [h EXCEPT ![result] =
        [k \in 1..Len(h[base_value]) |->
            h[base_value][k] + Mul(h[rate][k], t)]]

\* get_perihelion_argument: the difference of the two arrays, a new array.
get_perihelion_argument(h, perihelion_longitude, ascending_node_longitude, result) ==
    [h EXCEPT ![result] =
        [k \in 1..Len(h[perihelion_longitude]) |->
            h[perihelion_longitude][k] - h[ascending_node_longitude][k]]]

\* A mutation of the normalization: the reduction to (-180, 180] degrees.
NormalizeFullCircle(mean_anomaly) ==
    180 * ONE - ((180 * ONE - mean_anomaly) % (360 * ONE))

\* The last statement of get_mean_anomaly: the arcsine of the sine.
Normalize(mean_anomaly) == arcsin_wrapper(sin_wrapper(mean_anomaly))

\* The un-normalized mean anomaly of one body: the difference of the
\* longitudes, then the three += of the additional terms, which call
\* numpy.cos and numpy.sin on term_f * time directly.
RawMeanAnomaly(mean_longitude, perihelion_longitude, term_b, term_c, term_s, term_f, t) ==
    LET m0 == mean_longitude - perihelion_longitude
        m1 == m0 + Mul(term_b, Mul(t, t))
        m2 == m1 + Mul(term_c, CosRad(Mul(term_f, t)))
    IN  m2 + Mul(term_s, SinRad(Mul(term_f, t)))

\* get_mean_anomaly: its local mean_anomaly is a new array, updated in
\* place; the result is another new array.
get_mean_anomaly(h, mean_longitude, perihelion_longitude, term_b, term_c, term_s, term_f, t, result) ==
    LET raw == [k \in 1..Len(h[mean_longitude]) |->
                   RawMeanAnomaly(h[mean_longitude][k], h[perihelion_longitude][k],
                                  h[term_b][k], h[term_c][k], h[term_s][k],
                                  h[term_f][k], t)]
    IN  [h EXCEPT !["mean_anomaly"] = raw,
                  ![result] = [k \in 1..Len(raw) |-> Normalize(raw[k])]]

\* term_e of get_eccentric_anomaly.
TermE(eccentricity) ==
    [k \in 1..Len(eccentricity) |-> Mul(eccentricity[k], ECCENTRICITIY_FACTOR)]

\* The first value of eccentric_anomaly.
SeedAnomaly(mean_anomaly, term_e) ==
    [k \in 1..Len(mean_anomaly) |->
        mean_anomaly[k] + Mul(term_e[k], sin_wrapper(mean_anomaly[k]))]

\* mean_anomaly_delta of one pass of the loop.
MeanAnomalyDelta(mean_anomaly, term_e, eccentric_anomaly) ==
    [k \in 1..Len(mean_anomaly) |->
        mean_anomaly[k]
        - (eccentric_anomaly[k] - Mul(term_e[k], sin_wrapper(eccentric_anomaly[k])))]

\* A mutation of the delta: the eccentricity of the first body is used for
\* every body.
EccentricAnomalyDeltaFirstBody(mean_anomaly_delta, eccentricity, eccentric_anomaly) ==
    [k \in 1..Len(mean_anomaly_delta) |->
        Div(mean_anomaly_delta[k],
            ONE - Mul(eccentricity[1], cos_wrapper(eccentric_anomaly[k])))]

\* eccentric_anomaly_delta of one pass of the loop.
EccentricAnomalyDelta(mean_anomaly_delta, eccentricity, eccentric_anomaly) ==
    [k \in 1..Len(mean_anomaly_delta) |->
        Div(mean_anomaly_delta[k],
            ONE - Mul(eccentricity[k], cos_wrapper(eccentric_anomaly[k])))]

\* The loop test: any(eccentric_anomaly_delta > tol).
AnyExceeds(eccentric_anomaly_delta, tol) ==
    \E k \in 1..Len(tol) : At(eccentric_anomaly_delta, k) > tol[k]

\* The body of the loop: the two deltas, and eccentric_anomaly after its
\* += eccentric_anomaly_delta.
LoopPass(mean_anomaly, eccentricity, term_e, eccentric_anomaly) ==
    LET mad   == MeanAnomalyDelta(mean_anomaly, term_e, eccentric_anomaly)
        delta == EccentricAnomalyDelta(mad, eccentricity, eccentric_anomaly)
    IN  [mean_anomaly_delta |-> mad,
         eccentric_anomaly_delta |-> delta,
         eccentric_anomaly |->
             [k \in 1..Len(delta) |-> eccentric_anomaly[k] + delta[k]]]

\* The loop of get_eccentric_anomaly run to its exit, as far as MaxIter
\* passes: whether it returned, the array returned and the passes made.
RECURSIVE KeplerLoop(_, _, _, _, _, _, _)
KeplerLoop(mean_anomaly, eccentricity, tol, term_e, eccentric_anomaly, delta, n) ==
    IF ~ AnyExceeds(delta, tol)
    THEN [returned |-> TRUE, value |-> eccentric_anomaly, passes |-> n]
    ELSE IF n >= MaxIter
    THEN [returned |-> FALSE, value |-> eccentric_anomaly, passes |-> n]
    ELSE LET pass == LoopPass(mean_anomaly, eccentricity, term_e, eccentric_anomaly)
         IN  KeplerLoop(mean_anomaly, eccentricity, tol, term_e,
                        pass.eccentric_anomaly, pass.eccentric_anomaly_delta, n + 1)

\* One call of get_eccentric_anomaly.
get_eccentric_anomaly(mean_anomaly, eccentricity, tol) ==
    LET term_e == TermE(eccentricity)
    IN  KeplerLoop(mean_anomaly, eccentricity, tol, term_e,
                   SeedAnomaly(mean_anomaly, term_e), Scalar(Inf), 0)

\* Arithmetic that carries numpy's nan.
FMul(a, b) == IF a = NaN \/ b = NaN THEN NaN ELSE Mul(a, b)

FAdd(a, b) == IF a = NaN \/ b = NaN THEN NaN ELSE a + b

FSub(a, b) == IF a = NaN \/ b = NaN THEN NaN ELSE a - b

\* The greatest r of [lo, hi] with r * r <= n.
RECURSIVE RootSearch(_, _, _)
RootSearch(n, lo, hi) ==
    IF hi - lo <= 1
    THEN IF hi * hi <= n THEN hi ELSE lo
    ELSE LET mid == (lo + hi) \div 2
         IN  IF mid * mid <= n
             THEN RootSearch(n, mid, hi)
             ELSE RootSearch(n, lo, mid)

\* numpy.sqrt: nan (and a warning, no exception) on a negative number.
Sqrt(x) ==
    IF x = NaN \/ x < 0
    THEN NaN
    ELSE RootSearch(x * ONE, 0, 2 * ONE)

\* One row of heliocentric_coordinates in main.
HeliocentricCoordinate(semi_major_axis, eccentricity, eccentric_anomaly) ==
    << FMul(semi_major_axis, FSub(cos_wrapper(eccentric_anomaly), eccentricity)),
       FMul(FMul(semi_major_axis, Sqrt(ONE - Mul(eccentricity, eccentricity))),
            sin_wrapper(eccentric_anomaly)),
       0 >>

\* numpy.sum(u * v) of two rows of three.
Dot3(u, v) ==
    FAdd(FAdd(FMul(u[1], v[1]), FMul(u[2], v[2])), FMul(u[3], v[3]))

\* The rows of ecliptic_x_matrix, ecliptic_y_matrix and ecliptic_z_matrix
\* of one body.
EclipticX(w, node, incl) ==
    << Mul(cos_wrapper(w), cos_wrapper(node))
         - Mul(Mul(sin_wrapper(w), sin_wrapper(node)), cos_wrapper(incl)),
       - Mul(sin_wrapper(w), cos_wrapper(node))
         - Mul(Mul(cos_wrapper(w), sin_wrapper(node)), cos_wrapper(incl)),
       0 >>

EclipticY(w, node, incl) ==
    << Mul(cos_wrapper(w), sin_wrapper(node))
         + Mul(Mul(sin_wrapper(w), cos_wrapper(node)), cos_wrapper(incl)),
       - Mul(sin_wrapper(w), sin_wrapper(node))
         + Mul(Mul(cos_wrapper(w), cos_wrapper(node)), cos_wrapper(incl)),
       0 >>

EclipticZ(w, node, incl) ==
    << Mul(sin_wrapper(w), sin_wrapper(incl)),
       Mul(cos_wrapper(w), sin_wrapper(incl)),
       0 >>

\* get_ecliptic_coordinate: a new array of rows.
get_ecliptic_coordinate(h, heliocentric_coordinate, perihelion_argument, ascending_node_longitude, inclination, result) ==
    [h EXCEPT ![result] =
        [k \in 1..Len(h[heliocentric_coordinate]) |->
            LET v    == h[heliocentric_coordinate][k]
                w    == h[perihelion_argument][k]
                node == h[ascending_node_longitude][k]
                incl == h[inclination][k]
            IN  << Dot3(v, EclipticX(w, node, incl)),
                   Dot3(v, EclipticY(w, node, incl)),
                   Dot3(v, EclipticZ(w, node, incl)) >>]]

\* eq_matrix of main: the rotation about the x axis by the obliquity.
EqMatrix ==
    << << ONE, 0, 0 >>,
       << 0, cos_wrapper(OBLIQUITY), - sin_wrapper(OBLIQUITY) >>,
       << 0, sin_wrapper(OBLIQUITY), cos_wrapper(OBLIQUITY) >> >>

\* numpy.dot(eq_matrix, ecliptic_coordinates.T).T: what main prints.
Equatorial(eq_matrix, ecliptic_coordinates) ==
    [k \in 1..Len(ecliptic_coordinates) |->
        << Dot3(eq_matrix[1], ecliptic_coordinates[k]),
           Dot3(eq_matrix[2], ecliptic_coordinates[k]),
           Dot3(eq_matrix[3], ecliptic_coordinates[k]) >>]

(***************************************************************************)
(* main, statement by statement                                            *)
(***************************************************************************)

\* The heap after the import of Constants and before main binds anything.
ImportedHeap ==
    [o \in Objects |-> IF o \in TableNames THEN TableValue(o) ELSE Unbound]

\* century_since_epoch = get_century(time): the ValueError ends the run.
GetCentury ==
    /\ pc = "century_since_epoch"
    /\ LET num_century == CenturyQuotient(time)
       IN  IF OutOfScope(num_century)
           THEN /\ pc' = "ValueError"
                /\ heap' = heap
           ELSE /\ pc' = "semi_major_axes"
                /\ heap' = [heap EXCEPT !["century_since_epoch"] = Scalar(num_century)]
    /\ UNCHANGED <<time, iterations, run, printed>>

\* The six calls of get_current_value, in main's order: the name bound,
\* the table of base values and the table of rates.
Interpolations ==
    << <<"semi_major_axes", "SEMI_MAJOR_AXES", "SEMI_MAJOR_AXES_RATE">>,
       <<"eccentricities", "ECCENTRICITIES", "ECCENTRICITIES_RATE">>,
       <<"inclinations", "INCLINATIONS", "INCLINATIONS_RATE">>,
       <<"mean_longitudes", "MEAN_LONGITUDES", "MEAN_LONGITUDES_RATE">>,
       <<"perihelion_longitudes", "PERIHELION_LONGITUDES", "PERIHELION_LONGITUDES_RATE">>,
       <<"ascending_node_longitudes", "ASCENDING_NODE_LONGITUDES",
         "ASCENDING_NODE_LONGITUDES_RATE">> >>

Interpolate ==
    \E i \in 1..Len(Interpolations) :
        /\ pc = Interpolations[i][1]
        /\ heap' = get_current_value(heap, Interpolations[i][2], Interpolations[i][3],
                                     Working(heap["century_since_epoch"][1]),
                                     Interpolations[i][1])
        /\ pc' = IF i < Len(Interpolations)
                 THEN Interpolations[i + 1][1]
                 ELSE "perihelion_arguments"
        /\ UNCHANGED <<time, iterations, run, printed>>

PerihelionArguments ==
    /\ pc = "perihelion_arguments"
    /\ heap' = get_perihelion_argument(heap, "perihelion_longitudes",
                                       "ascending_node_longitudes",
                                       "perihelion_arguments")
    /\ pc' = "mean_anomalies"
    /\ UNCHANGED <<time, iterations, run, printed>>

MeanAnomalies ==
    /\ pc = "mean_anomalies"
    /\ heap' = get_mean_anomaly(heap, "mean_longitudes", "perihelion_longitudes",
                                "TERM_B", "TERM_C", "TERM_S", "TERM_F",
                                Working(heap["century_since_epoch"][1]),
                                "mean_anomalies")
    /\ pc' = "tol"
    /\ UNCHANGED <<time, iterations, run, printed>>

\* The array of tolerances main builds for the call.
BuildTol ==
    /\ pc = "tol"
    /\ heap' = [heap EXCEPT !["tol"] = [k \in 1..Len(heap["mean_anomalies"]) |-> TOL]]
    /\ pc' = "get_eccentric_anomaly"
    /\ UNCHANGED <<time, iterations, run, printed>>

\* get_eccentric_anomaly, up to its loop: term_e, the first
\* eccentric_anomaly (a new array) and the infinite first delta.
KeplerSeed ==
    /\ pc = "get_eccentric_anomaly"
    /\ LET term_e == TermE(heap["eccentricities"])
       IN  heap' = [heap EXCEPT
                       !["term_e"] = term_e,
                       !["eccentric_anomaly"] = SeedAnomaly(heap["mean_anomalies"], term_e),
                       !["mean_anomaly_delta"] = Unbound,
                       !["eccentric_anomaly_delta"] = Scalar(Inf)]
    /\ iterations' = 0
    /\ pc' = "while"
    /\ UNCHANGED <<time, run, printed>>

\* One pass of the loop: the test holds, and the body updates
\* eccentric_anomaly in place.
KeplerIterate ==
    /\ pc = "while"
    /\ AnyExceeds(heap["eccentric_anomaly_delta"], heap["tol"])
    /\ iterations < MaxIter
    /\ LET pass == LoopPass(heap["mean_anomalies"], heap["eccentricities"],
                            heap["term_e"], heap["eccentric_anomaly"])
       IN  heap' = [heap EXCEPT
                       !["mean_anomaly_delta"] = pass.mean_anomaly_delta,
                       !["eccentric_anomaly_delta"] = pass.eccentric_anomaly_delta,
                       !["eccentric_anomaly"] = pass.eccentric_anomaly]
    /\ iterations' = iterations + 1
    /\ UNCHANGED <<pc, time, run, printed>>

\* A pass of the loop after the MaxIter passes that iterations counts: the
\* code has no cap, so the loop goes on as long as its test holds.
KeplerIterateOn ==
    /\ pc = "while"
    /\ AnyExceeds(heap["eccentric_anomaly_delta"], heap["tol"])
    /\ iterations >= MaxIter
    /\ LET pass == LoopPass(heap["mean_anomalies"], heap["eccentricities"],
                            heap["term_e"], heap["eccentric_anomaly"])
       IN  heap' = [heap EXCEPT
                       !["mean_anomaly_delta"] = pass.mean_anomaly_delta,
                       !["eccentric_anomaly_delta"] = pass.eccentric_anomaly_delta,
                       !["eccentric_anomaly"] = pass.eccentric_anomaly]
    /\ UNCHANGED <<pc, time, iterations, run, printed>>

\* The test fails: get_eccentric_anomaly returns eccentric_anomaly.
KeplerReturn ==
    /\ pc = "while"
    /\ ~ AnyExceeds(heap["eccentric_anomaly_delta"], heap["tol"])
    /\ heap' = [heap EXCEPT !["eccentric_anomalies"] = heap["eccentric_anomaly"]]
    /\ pc' = "heliocentric_coordinates"
    /\ UNCHANGED <<time, iterations, run, printed>>

\* heliocentric_coordinates = numpy.column_stack(...): no test of the
\* eccentricity precedes the square root.
Project ==
    /\ pc = "heliocentric_coordinates"
    /\ heap' = [heap EXCEPT !["heliocentric_coordinates"] =
                   [k \in 1..Len(heap["eccentric_anomalies"]) |->
                       HeliocentricCoordinate(heap["semi_major_axes"][k],
                                              heap["eccentricities"][k],
                                              heap["eccentric_anomalies"][k])]]
    /\ pc' = "ecliptic_coordinates"
    /\ UNCHANGED <<time, iterations, run, printed>>

EclipticCoordinates ==
    /\ pc = "ecliptic_coordinates"
    /\ heap' = get_ecliptic_coordinate(heap, "heliocentric_coordinates",
                                       "perihelion_arguments",
                                       "ascending_node_longitudes", "inclinations",
                                       "ecliptic_coordinates")
    /\ pc' = "eq_matrix"
    /\ UNCHANGED <<time, iterations, run, printed>>

BuildEqMatrix ==
    /\ pc = "eq_matrix"
    /\ heap' = [heap EXCEPT !["eq_matrix"] = EqMatrix]
    /\ pc' = "print"
    /\ UNCHANGED <<time, iterations, run, printed>>

\* print(...): the last statement of main.
PrintEquatorial ==
    /\ pc = "print"
    /\ printed' = Append(printed, Equatorial(heap["eq_matrix"], heap["ecliptic_coordinates"]))
    /\ pc' = "return"
    /\ UNCHANGED <<time, heap, iterations, run>>

\* main returns, its frame and those of the functions it called are
\* gone, and main is called again in the same process with the same time.
CallAgain ==
    /\ pc = "return"
    /\ run < MaxRuns
    /\ run' = run + 1
    /\ heap' = [o \in Objects |-> IF o \in TableNames THEN heap[o] ELSE Unbound]
    /\ iterations' = 0
    /\ pc' = "century_since_epoch"
    /\ UNCHANGED <<time, printed>>

\* The instants main is run on: the literal of the source (J2000.0), half
\* a century and a century to either side of it, and instants beyond the
\* thirty centuries.
MainTimes ==
    { J2000_0 + d * (JD_PER_CENTURY \div 2) : d \in {-2, -1, 0, 1, 2} }
    \cup { J2000_0 + s * (CENTURY_LIMIT * JD_PER_CENTURY + d) :
             s \in {-1, 1}, d \in {4, JD_PER_CENTURY} }

Init ==
    /\ pc = "century_since_epoch"
    /\ time \in MainTimes
    /\ heap = ImportedHeap
    /\ iterations = 0
    /\ run = 1
    /\ printed = << >>

Next ==
    \/ GetCentury
    \/ Interpolate
    \/ PerihelionArguments
    \/ MeanAnomalies
    \/ BuildTol
    \/ KeplerSeed
    \/ KeplerIterate
    \/ KeplerReturn
    \/ Project
    \/ EclipticCoordinates
    \/ BuildEqMatrix
    \/ PrintEquatorial
    \/ CallAgain

Spec == Init /\ [][Next]_vars

(***************************************************************************)
(* get_century on its own: the instants within MaxOffset hundredths of a   *)
(* day of either end of the thirty centuries, and the whole centuries      *)
(* around J2000.0.                                                         *)
(***************************************************************************)

CenturyTimes ==
    { J2000_0 + s * (CENTURY_LIMIT * JD_PER_CENTURY + d) :
        s \in {-1, 1}, d \in (-MaxOffset)..MaxOffset }
    \cup { J2000_0 + d * JD_PER_CENTURY : d \in (-MaxOffset)..MaxOffset }

InitCentury ==
    /\ pc = "century_since_epoch"
    /\ time \in CenturyTimes
    /\ heap = ImportedHeap
    /\ iterations = 0
    /\ run = 1
    /\ printed = << >>

NextCentury == GetCentury

SpecCentury == InitCentury /\ [][NextCentury]_vars

(***************************************************************************)
(* get_mean_anomaly on its own, on arrays of one body: longitudes that     *)
(* put the un-normalized anomaly in every quadrant and on -90 degrees,     *)
(* the terms of no body, of Jupiter and of a unit cosine, and three        *)
(* century offsets.  Within a degree of +/-90 the four decimals of the     *)
(* model cannot tell the sine from +/-1 (float64 can, down to 1e-6         *)
(* degrees), so those inputs are left out, +/-90 itself excepted.          *)
(***************************************************************************)

MeanLongitudeInputs ==
    { -200 * ONE, -90 * ONE, 0, 30 * ONE, 120 * ONE, 200 * ONE, MEAN_LONGITUDES[1] }

PerihelionLongitudeInputs == { 0, 90 * ONE }

\* <<term_b, term_c, term_s, term_f>>
AdditionalTermInputs ==
    { <<0, 0, 0, 0>>,
      <<TERM_B[5], TERM_C[5], TERM_S[5], TERM_F[5]>>,
      <<0, ONE, 0, 90 * ONE>> }

CenturyInputs == { 0, T_ONE, - (T_ONE \div 2) }

\* The distance of two angles on the circle of 360 degrees.
AngleDistance(a, b) ==
    LET d == (a - b) % (360 * ONE)
    IN  IF d <= 180 * ONE THEN d ELSE 360 * ONE - d

Resolvable(mean_anomaly) ==
    /\ AngleDistance(mean_anomaly, 90 * ONE) \notin 1..AngleSlack
    /\ AngleDistance(mean_anomaly, -90 * ONE) \notin 1..AngleSlack

InitMeanAnomaly ==
    /\ pc = "mean_anomalies"
    /\ time = J2000_0
    /\ \E ml \in MeanLongitudeInputs, pl \in PerihelionLongitudeInputs,
          terms \in AdditionalTermInputs, t \in CenturyInputs :
          /\ Resolvable(RawMeanAnomaly(ml, pl, terms[1], terms[2], terms[3],
                                       terms[4], Working(t)))
          /\ heap = [ImportedHeap EXCEPT
                        !["century_since_epoch"] = Scalar(t),
                        !["mean_longitudes"] = << ml >>,
                        !["perihelion_longitudes"] = << pl >>,
                        !["TERM_B"] = << terms[1] >>,
                        !["TERM_C"] = << terms[2] >>,
                        !["TERM_S"] = << terms[3] >>,
                        !["TERM_F"] = << terms[4] >>]
    /\ iterations = 0
    /\ run = 1
    /\ printed = << >>

NextMeanAnomaly == MeanAnomalies

SpecMeanAnomaly == InitMeanAnomaly /\ [][NextMeanAnomaly]_vars

(***************************************************************************)
(* get_eccentric_anomaly on its own, on arrays of KeplerBodies bodies:     *)
(* mean anomalies of either sign, eccentricities from 0 to 0.9, and per    *)
(* body a tolerance of 0.0002 or of 0.1 degree.  The working format        *)
(* resolves a correction to a few units only, so for these inputs the      *)
(* tolerance of a body is never less than two units.                       *)
(***************************************************************************)

MeanAnomalyInputs == { -60 * ONE, -20 * ONE, 20 * ONE, 60 * ONE }

EccentricityInputs == { 0, ECCENTRICITIES[1], 9 * (ONE \div 10) }

TolInputs == { 2, ONE \div 10 }

InitKepler ==
    /\ pc = "get_eccentric_anomaly"
    /\ time = J2000_0
    /\ \E m \in [1..KeplerBodies -> MeanAnomalyInputs],
          ecc \in [1..KeplerBodies -> EccentricityInputs],
          tol \in [1..KeplerBodies -> TolInputs] :
          heap = [ImportedHeap EXCEPT
                     !["mean_anomalies"] = m,
                     !["eccentricities"] = ecc,
                     !["tol"] = tol]
    /\ iterations = 0
    /\ run = 1
    /\ printed = << >>

NextKepler ==
    \/ KeplerSeed
    \/ KeplerIterate
    \/ KeplerReturn

SpecKepler == InitKepler /\ [][NextKepler]_vars

(***************************************************************************)
(* The heliocentric projection of main on its own, on arrays of            *)
(* ProjectorBodies bodies, with eccentricities on both sides of 1.         *)
(***************************************************************************)

SemiMajorAxisInputs == { ONE, 5 * ONE }

ProjectorEccentricityInputs == { 0, ONE \div 2, ONE, 3 * (ONE \div 2) }

EccentricAnomalyInputs == { 30 * ONE, -120 * ONE }

InitProjector ==
    /\ pc = "heliocentric_coordinates"
    /\ time = J2000_0
    /\ \E a \in [1..ProjectorBodies -> SemiMajorAxisInputs],
          ecc \in [1..ProjectorBodies -> ProjectorEccentricityInputs],
          ea \in [1..ProjectorBodies -> EccentricAnomalyInputs] :
          heap = [ImportedHeap EXCEPT
                     !["semi_major_axes"] = a,
                     !["eccentricities"] = ecc,
                     !["eccentric_anomalies"] = ea]
    /\ iterations = 0
    /\ run = 1
    /\ printed = << >>

NextProjector == Project

SpecProjector == InitProjector /\ [][NextProjector]_vars

(***************************************************************************)
(* get_eccentric_anomaly with its loop left uncapped, to see whether it    *)
(* returns: eccentricities in [0, 1) and positive tolerances, among them   *)
(* one unit of the working format, the least positive tolerance it has.    *)
(* The function is a sequential program, so a step that can be made is     *)
(* made: weak fairness of the next step, which is enabled exactly while    *)
(* control is inside the function.                                         *)
(***************************************************************************)

TerminationMeanAnomalyInputs == { -5 * ONE, 5 * ONE, 60 * ONE }

TerminationEccentricityInputs == { ECCENTRICITIES[1], 9 * (ONE \div 10) }

TerminationTolInputs == { 1, ONE \div 10 }

InitTermination ==
    /\ pc = "get_eccentric_anomaly"
    /\ time = J2000_0
    /\ \E m \in [1..KeplerBodies -> TerminationMeanAnomalyInputs],
          ecc \in [1..KeplerBodies -> TerminationEccentricityInputs],
          tol \in [1..KeplerBodies -> TerminationTolInputs] :
          heap = [ImportedHeap EXCEPT
                     !["mean_anomalies"] = m,
                     !["eccentricities"] = ecc,
                     !["tol"] = tol]
    /\ iterations = 0
    /\ run = 1
    /\ printed = << >>

NextTermination ==
    \/ KeplerSeed
    \/ KeplerIterate
    \/ KeplerIterateOn
    \/ KeplerReturn

\* The loop test holds: another pass follows.
InLoop ==
    /\ pc = "while"
    /\ AnyExceeds(heap["eccentric_anomaly_delta"], heap["tol"])

\* Weak fairness of every step of the function.  For the steps that compute
\* a new array the enabling condition is written out as the guard of the
\* step: with positive tolerances a pass always changes eccentric_anomaly,
\* so the step is enabled exactly when its guard holds.
SpecTermination ==
    /\ InitTermination
    /\ [][NextTermination]_vars
    /\ (<>[](pc = "get_eccentric_anomaly") => []<><<KeplerSeed>>_vars)
    /\ (<>[](InLoop /\ iterations < MaxIter) => []<><<KeplerIterate>>_vars)
    /\ (<>[](InLoop /\ iterations >= MaxIter) => []<><<KeplerIterateOn>>_vars)
    /\ WF_vars(KeplerReturn)

(***************************************************************************)
(* Properties                                                              *)
(***************************************************************************)

\* C1: get_century returns (jd - 2451545.0)/36525 when the offset is at
\* most thirty centuries in magnitude, the boundary included, and raises
\* ValueError, binding nothing, when it is greater, on either side.
C1_GetCenturyRange ==
    pc # "century_since_epoch" =>
        IF Abs(time - J2000_0) <= CENTURY_LIMIT * JD_PER_CENTURY
        THEN /\ pc = "semi_major_axes"
             /\ heap["century_since_epoch"] = Scalar(CenturyQuotient(time))
             /\ Abs(heap["century_since_epoch"][1]) <= CENTURY_LIMIT * T_ONE
        ELSE /\ pc = "ValueError"
             /\ heap["century_since_epoch"] = Unbound

\* C1's case: the instant exactly thirty centuries before J2000.0 is
\* accepted, with the offset -30.
C1_BoundaryAccepted ==
    /\ time = J2000_0 - CENTURY_LIMIT * JD_PER_CENTURY
    /\ pc = "semi_major_axes"
    /\ heap["century_since_epoch"] = Scalar(- CENTURY_LIMIT * T_ONE)

\* C2: in every run of main the range check of get_century has passed
\* before anything else is bound; when it fails nothing is bound, nothing
\* is printed and no statement of main runs afterwards.
C2_CheckBeforeInterpolation ==
    /\ (\E o \in (MainLocals \cup FunctionLocals) \ {"century_since_epoch"} :
            heap[o] # Unbound)
         => /\ heap["century_since_epoch"] # Unbound
            /\ Abs(time - J2000_0) <= CENTURY_LIMIT * JD_PER_CENTURY
    /\ pc \notin {"century_since_epoch", "ValueError"}
         => /\ heap["century_since_epoch"] = Scalar(CenturyQuotient(time))
            /\ Abs(time - J2000_0) <= CENTURY_LIMIT * JD_PER_CENTURY
    /\ pc = "ValueError"
         => /\ \A o \in MainLocals \cup FunctionLocals : heap[o] = Unbound
            /\ printed = << >>
            /\ ~ ENABLED Next

\* C2's case: main has stopped on the ValueError of an instant more than
\* thirty centuries after J2000.0.
C2_Raised ==
    /\ pc = "ValueError"
    /\ time - J2000_0 > CENTURY_LIMIT * JD_PER_CENTURY

\* C6: main called twice on the same time prints the same thing twice: the
\* tables of Constants keep the values of their import, and no statement
\* changes an array that is already bound (each builds a new one).
C6_Idempotent ==
    /\ [](/\ \A o \in TableNames : heap[o] = TableValue(o)
          /\ \A i, j \in 1..Len(printed) : printed[i] = printed[j])
    /\ [][pc # "return" =>
            \A o \in TableNames \cup MainLocals :
                heap[o] # Unbound => heap'[o] = heap[o]]_vars

\* C6's case: the second call has printed, at an instant where the rates
\* of the tables contribute, what the first call printed.
C6_PrintedTwice ==
    /\ pc = "return"
    /\ run = 2
    /\ Len(printed) = 2
    /\ time # J2000_0
    /\ heap["mean_longitudes"] # MEAN_LONGITUDES
    /\ printed[1] = printed[2]

\* C4 as claimed: get_mean_anomaly returns v with -90 < v <= 90 degrees.
C4_HalfOpenRange ==
    pc = "tol" =>
        \A k \in 1..Len(heap["mean_anomalies"]) :
            /\ -90 * ONE < heap["mean_anomalies"][k]
            /\ heap["mean_anomalies"][k] <= 90 * ONE

\* C4, amended: get_mean_anomaly returns v with -90 <= v <= 90 degrees,
\* both ends included.
C4_ClosedRange ==
    pc = "tol" =>
        \A k \in 1..Len(heap["mean_anomalies"]) :
            /\ -90 * ONE <= heap["mean_anomalies"][k]
            /\ heap["mean_anomalies"][k] <= 90 * ONE

\* C4's case: an un-normalized anomaly of 120 degrees, outside the range,
\* is returned as an angle inside it.
C4_FoldedIntoRange ==
    /\ pc = "tol"
    /\ heap["mean_anomaly"] = << 120 * ONE >>
    /\ heap["mean_anomalies"][1] > 0
    /\ heap["mean_anomalies"][1] <= 90 * ONE

\* C5: the value get_mean_anomaly returns lies within +/-180 degrees and is
\* the same angle as the un-normalized mean anomaly: the two differ by a
\* multiple of 360 degrees (to AngleSlack, the resolution of the arcsine).
C5_SameAngle ==
    pc = "tol" =>
        \A k \in 1..Len(heap["mean_anomalies"]) :
            /\ Abs(heap["mean_anomalies"][k]) <= 180 * ONE
            /\ AngleDistance(heap["mean_anomalies"][k], heap["mean_anomaly"][k])
                 <= AngleSlack

\* C9: the correction get_mean_anomaly adds is
\* b * t^2 + c * cos_deg(f * t) + s * sin_deg(f * t), the argument f * t
\* being taken in degrees.
C9_DegreeArguments ==
    pc = "tol" =>
        \A k \in 1..Len(heap["mean_anomaly"]) :
            LET t == Working(heap["century_since_epoch"][1])
                f == heap["TERM_F"][k]
            IN  heap["mean_anomaly"][k]
                  = heap["mean_longitudes"][k] - heap["perihelion_longitudes"][k]
                    + Mul(heap["TERM_B"][k], Mul(t, t))
                    + Mul(heap["TERM_C"][k], cos_wrapper(Mul(f, t)))
                    + Mul(heap["TERM_S"][k], sin_wrapper(Mul(f, t)))

\* The residual of Kepler's equation, M - (E - e * (180/pi) * sin_deg(E)).
Residual(mean_anomaly, eccentricity, eccentric_anomaly) ==
    mean_anomaly
    - (eccentric_anomaly
       - Mul(Mul(eccentricity, ECCENTRICITIY_FACTOR), sin_wrapper(eccentric_anomaly)))

\* C3: when get_eccentric_anomaly returns E, every body with an
\* eccentricity in [0, 0.9] has |M - (E - e*(180/pi)*sin_deg(E))| within
\* its tolerance (to ResidualSlack, the resolution of the model).
C3_ResidualWithinTol ==
    pc = "heliocentric_coordinates" =>
        \A k \in 1..Len(heap["eccentric_anomalies"]) :
            (0 <= heap["eccentricities"][k] /\ heap["eccentricities"][k] <= 9 * (ONE \div 10))
              => Abs(Residual(heap["mean_anomalies"][k], heap["eccentricities"][k],
                              heap["eccentric_anomalies"][k]))
                   <= heap["tol"][k] + ResidualSlack

\* C8: when get_eccentric_anomaly returns, at least one correction has
\* been applied and the magnitude of the last correction of every body is
\* at most that body's tolerance.
C8_LastCorrectionWithinTol ==
    pc = "heliocentric_coordinates" =>
        /\ iterations >= 1
        /\ \A k \in 1..Len(heap["tol"]) :
               Abs(At(heap["eccentric_anomaly_delta"], k)) <= heap["tol"][k]

\* C10 as claimed: what get_eccentric_anomaly returns for body k, and the
\* passes it makes, are those of any other call that agrees on k's mean
\* anomaly, eccentricity and tolerance, whatever the other bodies are.
C10_NoCrossBody ==
    pc = "heliocentric_coordinates" =>
        \A k \in 1..KeplerBodies :
            \A m \in [1..KeplerBodies -> MeanAnomalyInputs],
               ecc \in [1..KeplerBodies -> EccentricityInputs],
               tol \in [1..KeplerBodies -> TolInputs] :
                (/\ m[k] = heap["mean_anomalies"][k]
                 /\ ecc[k] = heap["eccentricities"][k]
                 /\ tol[k] = heap["tol"][k])
                  => LET other == get_eccentric_anomaly(m, ecc, tol)
                     IN  other.returned
                           => /\ other.value[k] = heap["eccentric_anomalies"][k]
                              /\ other.passes = iterations

\* C10, amended: the seed of body k and every correction of body k are
\* those that k's own mean anomaly, eccentricity and current eccentric
\* anomaly give on their own, and the array returned is the array so
\* built; what body k shares with the other bodies is the number of passes.
C10_OwnInputsAndPasses ==
    [][/\ (pc = "get_eccentric_anomaly" /\ pc' = "while") =>
              \A k \in 1..KeplerBodies :
                  heap'["eccentric_anomaly"][k]
                    = SeedAnomaly(<< heap["mean_anomalies"][k] >>,
                                  TermE(<< heap["eccentricities"][k] >>))[1]
       /\ (pc = "while" /\ pc' = "while") =>
              \A k \in 1..KeplerBodies :
                  heap'["eccentric_anomaly"][k]
                    = LoopPass(<< heap["mean_anomalies"][k] >>,
                               << heap["eccentricities"][k] >>,
                               << heap["term_e"][k] >>,
                               << heap["eccentric_anomaly"][k] >>).eccentric_anomaly[1]
       /\ (pc = "while" /\ pc' = "heliocentric_coordinates") =>
              heap'["eccentric_anomalies"] = heap["eccentric_anomaly"]]_vars

\* C10's case: the call has returned after more passes than body k alone
\* would have been given, with another value for k.
C10_MorePassesThanAlone ==
    /\ pc = "heliocentric_coordinates"
    /\ \E k \in 1..KeplerBodies :
           LET alone == get_eccentric_anomaly(<< heap["mean_anomalies"][k] >>,
                                              << heap["eccentricities"][k] >>,
                                              << heap["tol"][k] >>)
           IN  /\ alone.returned
               /\ alone.passes < iterations
               /\ alone.value[1] # heap["eccentric_anomalies"][k]

\* C7: the heliocentric projection never completes with a body of
\* eccentricity >= 1 (it ends in a DomainError instead), and no coordinate
\* triple it yields has an undefined (nan) component.
C7_DomainError ==
    pc = "ecliptic_coordinates" =>
        \A k \in 1..Len(heap["heliocentric_coordinates"]) :
            /\ heap["eccentricities"][k] < ONE
            /\ \A i \in 1..3 : heap["heliocentric_coordinates"][k][i] # NaN

\* C11: with eccentricities in [0, 1) and a positive tolerance per body,
\* the loop of get_eccentric_anomaly is eventually left and the function
\* returns.
C11_EventuallyReturns == <>(pc = "heliocentric_coordinates")

=============================================================================
